---- MODULE Spec2Model ----
(***************************************************************************)
(* Model of televideditor.py: the worker loop (__main__), the per-job      *)
(* pipeline (process_video_job), the queue poll (fetch_job_from_redis),    *)
(* the temp-file bookkeeping (files_to_clean / cleanup_files) and the      *)
(* shutdown call (stop_railway_deployment).                                *)
(*                                                                         *)
(* The program is single-threaded: `pc` is the position of the one Python  *)
(* thread.  The environment (producer pushing to the Redis list, network,  *)
(* Telegram, ffmpeg, ffprobe, the font file) is nondeterministic: each     *)
(* blocking call draws its outcome from the outcomes the call can have.    *)
(*                                                                         *)
(* Spec is the worker; FairSpec is Spec with the worker's steps weakly     *)
(* fair.  SpecCompose (the encoder command), SpecWrap (the caption         *)
(* wrapping) and SpecStop (one call of stop_railway_deployment) take one   *)
(* function on its own, over all its inputs within the bounds.             *)
(***************************************************************************)
EXTENDS Integers, Sequences, FiniteSets, TLC

\* ------------------------------------------------------------------ bounds
\* Number of payloads the producer pushes to job_queue during one run.
MaxJobs == 2
\* Deployment ids the Railway API may report for a service: 1..MaxDeployId.
MaxDeployId == 2
\* Media sizes in pixels: widths 1..MaxMediaW, heights 1..MaxMediaH.
MaxMediaW == 8
MaxMediaH == 16
\* A caption text is at most MaxTokens words, whitespace runs and newlines.
MaxTokens == 4

\* ------------------------------------------------------- program constants
timeout_seconds == 60
poll_sleep == 3
COMP_WIDTH == 1080
COMP_HEIGHT == 1920
MEDIA_FADE_DURATION == 3
CAPTION_FADE_DURATION == 11
MEDIA_Y_OFFSET == 0
\* width=30 of the textwrap.wrap call at line 263.
wrap_width == 30

\* ------------------------------------------------------------ descriptors
\* A job descriptor is the dict json.loads returns: the set of keys present,
\* plus the value of media_type.  `id` is the producer's job id; it is the
\* value of the job_id key when that key is present.
AllFields == {"chat_id", "job_id", "file_id", "media_type", "caption_text", "apply_fade"}

\* Python None.
None == [id |-> 0, fields |-> {}, media_type |-> "None"]

\* Key sets of the descriptors the producer may push: complete ones, ones
\* with a key missing, and the empty dict.
FieldSets ==
    { AllFields,
      AllFields \ {"job_id"},
      AllFields \ {"caption_text"},
      {} }

Descriptors(n) ==
    { [id |-> n, fields |-> f, media_type |-> m] :
        f \in FieldSets, m \in {"image", "video"} }

\* An element of the Redis list: a string that is the JSON text of a
\* descriptor, or a string that is not JSON.  `early` and `inDrain` are
\* history flags: the element was pushed before the idle timeout elapsed;
\* the element was in the list while a Draining poll ran and stayed in it.
Payloads(n, e) ==
    { [text |-> "json", desc |-> d, early |-> e, inDrain |-> FALSE] :
        d \in { x \in Descriptors(n) : x.media_type = "image" \/ x.fields = AllFields } }
    \cup { [text |-> "garbage", desc |-> None, early |-> e, inDrain |-> FALSE] }

\* Python truthiness of what fetch_job_from_redis returned (`if job:`):
\* None and the empty dict are falsy.
Truthy(j) == j # None /\ j.fields # {}

\* json.loads(result): the descriptor, or JSONDecodeError.
json_loads(p) ==
    IF p.text = "json" THEN [ok |-> TRUE, value |-> p.desc]
                       ELSE [ok |-> FALSE, value |-> None]

\* ------------------------------------------------------------------ files
\* Paths are keyed by job id: downloads/<id><ext>, outputs/caption_<id>.png,
\* outputs/output_<id>.mp4, outputs/frame_<id>.jpg.
File(kind, id) == [kind |-> kind, id |-> id]

Range(s) == { s[i] : i \in DOMAIN s }

VARIABLES
    pc,             \* position of the thread
    now,            \* time.time() in seconds, as line 470 reads it; a poll is
                    \* taken to return at once, time passes in time.sleep
    start_time,     \* line 463
    queue,          \* the Redis list job_queue (head = left end)
    pushed,         \* number of payloads pushed so far
    first_job,      \* line 465
    job_data,       \* argument of the running process_video_job call
    files_to_clean, \* line 352
    fs,             \* files that exist on disk
    polls,          \* number of fetch_job_from_redis calls
    lastPoll,       \* what the last fetch_job_from_redis call returned
    jobsReturned,   \* ids of the truthy jobs the polls returned, in order
    pollFailed,     \* some poll's HTTP request has failed
    processed,      \* ids process_video_job was called with, in order
    cleaned,        \* ids whose finally block has run, in order
    jobState,       \* "none" | "running" | "returned" | "raised"
    stagesRun,      \* stages the running call has entered, in order
    failedAt,       \* stage whose failure sent the call to the except block
    cleanupCount,   \* cleanup_files calls made by the running call
    created,        \* files the running call has created on disk
    submitted,      \* ids submit_result_to_worker was called for
    encoderTimedOut,\* the running call's encoder hit the 300 s timeout
    stopCalls,      \* number of stop_railway_deployment calls
    railway,        \* requests sent to the Railway API, each with its reply, in order
    latest,         \* id of the service's latest deployment, as the Railway API has it
    env,            \* os.environ: RAILWAY_API_TOKEN and RAILWAY_SERVICE_ID
    deployment_id,  \* line 116
    compose_in,     \* inputs of the command construction of lines 368-432
    command,        \* the encoder command built from them
    text,           \* argument of create_caption_image, as its logical lines
    final_lines     \* line 263

loopVars == <<now, start_time, first_job, polls, lastPoll, jobsReturned, pollFailed>>
queueVars == <<queue, pushed>>
jobVars == <<job_data, files_to_clean, fs, processed, cleaned, jobState, stagesRun,
             failedAt, cleanupCount, created, submitted, encoderTimedOut>>
stopVars == <<stopCalls, railway, latest, env, deployment_id>>
pureVars == <<compose_in, command, text, final_lines>>
vars == <<pc, loopVars, queueVars, jobVars, stopVars, pureVars>>

\* Value of a variable that holds nothing yet.
Unset == [set |-> FALSE]

\* The worker loop does not touch the variables of the command construction
\* and of the caption wrapping when these are studied on their own.
PureIdle ==
    /\ compose_in = Unset
    /\ command = Unset
    /\ text = <<>>
    /\ final_lines = <<>>

\* The worker's variables after create_directories() and lines 463-465.
\* Line 27 has raised unless both Railway variables are set.
WorkerStart ==
    /\ now = 0
    /\ start_time = 0
    /\ queue = <<>>
    /\ pushed = 0
    /\ first_job = None
    /\ job_data = None
    /\ files_to_clean = <<>>
    /\ fs = {}
    /\ polls = 0
    /\ lastPoll = None
    /\ jobsReturned = <<>>
    /\ pollFailed = FALSE
    /\ processed = <<>>
    /\ cleaned = <<>>
    /\ jobState = "none"
    /\ stagesRun = <<>>
    /\ failedAt = "none"
    /\ cleanupCount = 0
    /\ created = {}
    /\ submitted = <<>>
    /\ encoderTimedOut = FALSE
    /\ stopCalls = 0
    /\ railway = <<>>
    /\ deployment_id = 0

\* The worker's environment: line 27 has raised unless both are set.  The
\* worker only passes the deployment id on, so in its runs the latest
\* deployment is taken to be 1; SpecStop takes every id.
ProgramEnv == [api_token |-> "t1", service_id |-> "s1"]

Init ==
    /\ pc = "wait"
    /\ WorkerStart
    /\ env = ProgramEnv
    /\ latest = 1
    /\ PureIdle

\* ---------------------------------------------------------- the job queue
\* LPUSH by the producer: the new element goes to the head.
LPush(q, p) == <<p>> \o q

\* RPOP: the element at the tail, and the list without it.
RPopResult(q) == q[Len(q)]
RPopRest(q) == SubSeq(q, 1, Len(q) - 1)

\* Outcomes of the HTTP GET of fetch_job_from_redis:
\*   "ok"          the server ran RPOP and the reply arrived;
\*   "conn_error"  the request failed before the server ran RPOP, or the
\*                 server answered with an error status (RequestException);
\*   "lost_reply"  the server ran RPOP and the reply did not arrive within
\*                 the 5 s timeout (RequestException).
NetOutcomes == {"ok", "conn_error", "lost_reply"}

\* fetch_job_from_redis: the value returned and the list afterwards.
fetch_job_from_redis(q, net) ==
    IF net = "conn_error" \/ q = <<>>
    THEN [job |-> None, queue |-> q]
    ELSE IF net = "lost_reply"
    THEN [job |-> None, queue |-> RPopRest(q)]
    ELSE LET parsed == json_loads(RPopResult(q))
         IN  [job |-> IF parsed.ok THEN parsed.value ELSE None,
              queue |-> RPopRest(q)]

\* The elements still in the list after a Draining poll were in the list
\* while Draining ran.
MarkInDrain(q) == [i \in 1..Len(q) |-> [q[i] EXCEPT !.inDrain = TRUE]]

\* ------------------------------------------------------- the worker loop
\* Line 470: while time.time() - start_time < timeout_seconds.
WaitLoopCond(t, t0) == t - t0 < timeout_seconds

\* Lines 472-478: a truthy job breaks out of the polling loop, otherwise sleep.
AfterWaitPollPc(j) == IF Truthy(j) THEN "after_wait" ELSE "wait_sleep"

AfterWaitPc_DrainAnyway(fj) == IF Truthy(fj) THEN "job_entry" ELSE "drain_poll"

\* Lines 481-496: process the first job, or go straight to the shutdown phase.
AfterWaitPc(fj) == IF Truthy(fj) THEN "job_entry" ELSE "shutdown"

AfterDrainPollPc_Retry(j) == IF Truthy(j) THEN "job_entry" ELSE "drain_poll"

\* Lines 488-493: a truthy job is processed, anything else ends the drain.
AfterDrainPollPc(j) == IF Truthy(j) THEN "job_entry" ELSE "shutdown"

AfterJobPc_NoDrain == "shutdown"

\* Lines 483-487 and 489: process_video_job returns to the top of the
\* `while True` loop.
AfterJobPc == "drain_poll"

AfterStopPc_BackToLoop == "drain_poll"

\* Lines 501-502: after stop_railway_deployment the script ends.
AfterStopPc == "exited"

\* The producer pushes one payload.
Enqueue ==
    /\ pushed < MaxJobs
    /\ pc \notin {"exited", "crashed"}
    /\ \E p \in Payloads(pushed + 1,
                         pc \in {"wait", "wait_sleep"} /\ now - start_time < timeout_seconds) :
           queue' = LPush(queue, p)
    /\ pushed' = pushed + 1
    /\ UNCHANGED <<pureVars, pc, loopVars, jobVars, stopVars>>

\* Lines 470-475: one iteration of the polling loop up to the sleep.
WaitPoll ==
    /\ pc = "wait"
    /\ WaitLoopCond(now, start_time)
    /\ \E net \in NetOutcomes :
          LET r == fetch_job_from_redis(queue, net) IN
          /\ queue' = r.queue
          /\ polls' = polls + 1
          /\ lastPoll' = r.job
          /\ pollFailed' = (pollFailed \/ net # "ok")
          /\ first_job' = IF Truthy(r.job) THEN r.job ELSE first_job
          /\ jobsReturned' = IF Truthy(r.job) THEN Append(jobsReturned, r.job.id)
                                              ELSE jobsReturned
          /\ pc' = AfterWaitPollPc(r.job)
    /\ UNCHANGED <<pureVars, now, start_time, pushed, jobVars, stopVars>>

\* Line 478: time.sleep(3).
Sleep ==
    /\ pc = "wait_sleep"
    /\ now' = now + poll_sleep
    /\ pc' = "wait"
    /\ UNCHANGED <<pureVars, start_time, first_job, polls, lastPoll, jobsReturned, pollFailed,
                   queueVars, jobVars, stopVars>>

\* Line 470 evaluating to false: the polling loop ends without a job.
WaitTimeout ==
    /\ pc = "wait"
    /\ ~WaitLoopCond(now, start_time)
    /\ pc' = "after_wait"
    /\ UNCHANGED <<pureVars, loopVars, queueVars, jobVars, stopVars>>

\* Lines 481-483 and 494-496.
AfterWait ==
    /\ pc = "after_wait"
    /\ pc' = AfterWaitPc(first_job)
    /\ job_data' = IF Truthy(first_job) THEN first_job ELSE job_data
    /\ UNCHANGED <<pureVars, loopVars, queueVars, files_to_clean, fs, processed, cleaned, jobState,
                   stagesRun, failedAt, cleanupCount, created, submitted, encoderTimedOut,
                   stopVars>>

\* Lines 486-493: one iteration of the drain loop up to the call of
\* process_video_job or the break.
DrainPoll ==
    /\ pc = "drain_poll"
    /\ \E net \in NetOutcomes :
          LET r == fetch_job_from_redis(queue, net) IN
          /\ queue' = MarkInDrain(r.queue)
          /\ polls' = polls + 1
          /\ lastPoll' = r.job
          /\ pollFailed' = (pollFailed \/ net # "ok")
          /\ jobsReturned' = IF Truthy(r.job) THEN Append(jobsReturned, r.job.id)
                                              ELSE jobsReturned
          /\ job_data' = IF Truthy(r.job) THEN r.job ELSE job_data
          /\ pc' = AfterDrainPollPc(r.job)
    /\ UNCHANGED <<pureVars, now, start_time, first_job, pushed, files_to_clean, fs, processed,
                   cleaned, jobState, stagesRun, failedAt, cleanupCount, created,
                   submitted, encoderTimedOut, stopVars>>

\* ------------------------------------------------------ process_video_job
\* Lines 348-349 read job_data['chat_id'] and job_data['job_id'] before the
\* try statement: a descriptor without one of them raises KeyError there.
EntryRaises(jd) == ~({"chat_id", "job_id"} \subseteq jd.fields)

\* The stages of the try block, in program order.
StageOrder == <<"acquire", "probe", "caption", "compose", "frame", "submit">>

StageIndex(s) == CHOOSE i \in DOMAIN StageOrder : StageOrder[i] = s

NextStage_SkipFrame(s) ==
    IF s = "compose" THEN "submit"
    ELSE IF StageIndex(s) < Len(StageOrder) THEN StageOrder[StageIndex(s) + 1]
    ELSE "finally"

NextStage_SkipFinally(s) ==
    IF StageIndex(s) < Len(StageOrder) THEN StageOrder[StageIndex(s) + 1] ELSE "drain_poll"

\* The statement after a stage that succeeded; after line 446 the finally block.
NextStage(s) ==
    IF StageIndex(s) < Len(StageOrder) THEN StageOrder[StageIndex(s) + 1] ELSE "finally"

OnStageFailure_RetrySubmit(s) == IF s = "submit" THEN "submit" ELSE "finally"

OnStageFailure_FrameOptional(s) == IF s = "frame" THEN "submit" ELSE "finally"

\* Lines 448-454: an exception raised in the try block is logged by the
\* except block and control goes to the finally block.
OnStageFailure(s) == "finally"

\* download_telegram_file: the path returned (None on failure) and whether
\* save_path was created.  "partial": the stream failed after open(save_path).
DownloadOutcomes == {"ok", "failed", "partial"}
download_telegram_file(o) == [ret |-> o = "ok", wrote |-> o \in {"ok", "partial"}]

\* get_media_dimensions: (width, height, duration); ffprobe failing gives
\* (None, None, None), written 0 here.  An exception of Image.open is the
\* same failure for the caller.
ProbeOutcomes == {"ok", "failed"}
get_media_dimensions(o) ==
    IF o = "ok" THEN [w |-> 1080, h |-> 1350, d |-> 12] ELSE [w |-> 0, h |-> 0, d |-> 0]

\* Line 362: all([media_w, media_h, final_duration]).
AllDims(r) == r.w # 0 /\ r.h # 0 /\ r.d # 0

\* create_caption_image: returns the path, or raises (missing font: no file;
\* failing save: a partly written file).
CaptionOutcomes == {"ok", "failed", "partial"}
create_caption_image(o) == [ret |-> o = "ok", wrote |-> o \in {"ok", "partial"}]

\* subprocess.run(command, timeout=300) of line 434: exit status 0, a
\* non-zero exit status, or TimeoutExpired; the encoder opens output_filepath
\* before it encodes, so a failed run may leave a partly written file.
EncoderOutcomes == {"ok", "nonzero", "nonzero_partial", "timeout", "timeout_partial"}
run_encoder(o) ==
    [ok |-> o = "ok",
     wrote |-> o \in {"ok", "nonzero_partial", "timeout_partial"},
     timed_out |-> o \in {"timeout", "timeout_partial"}]

\* extract_frame_from_video: the path, or None.
FrameOutcomes == {"ok", "failed", "partial"}
extract_frame_from_video(o) == [ret |-> o = "ok", wrote |-> o \in {"ok", "partial"}]

\* submit_result_to_worker: True, False (RequestException), or an OSError
\* of open() that propagates to the caller.  The caller ignores the value.
SubmitOutcomes == {"ok", "request_error", "os_error"}

\* cleanup_files: every listed path that exists is removed.
cleanup_files(file_list, fsys) == fsys \ Range(file_list)

\* Bookkeeping common to the stages: the stage is entered once, and the
\* thread moves to the next stage or to the handler.
StageStep(stage, ok) ==
    /\ stagesRun' = Append(stagesRun, stage)
    /\ failedAt' = IF ok THEN failedAt ELSE stage
    /\ pc' = IF ok THEN NextStage(stage) ELSE OnStageFailure(stage)

\* Lines 346-352: the call, the two key reads and files_to_clean = [].
JobEntry ==
    /\ pc = "job_entry"
    /\ processed' = Append(processed, job_data.id)
    /\ IF EntryRaises(job_data)
       THEN /\ pc' = "crashed"
            /\ jobState' = "raised"
            /\ UNCHANGED <<files_to_clean, stagesRun, failedAt, cleanupCount, created,
                           encoderTimedOut>>
       ELSE /\ pc' = "acquire"
            /\ jobState' = "running"
            /\ files_to_clean' = <<>>
            /\ stagesRun' = <<>>
            /\ failedAt' = "none"
            /\ cleanupCount' = 0
            /\ created' = {}
            /\ encoderTimedOut' = FALSE
    /\ UNCHANGED <<pureVars, loopVars, queueVars, job_data, fs, cleaned, submitted, stopVars>>

\* Lines 356-358.
Acquire ==
    /\ pc = "acquire"
    /\ \E o \in DownloadOutcomes :
          LET r == download_telegram_file(o)
              f == File("media", job_data.id)
              keyed == "file_id" \in job_data.fields
          IN  /\ fs' = IF keyed /\ r.wrote THEN fs \cup {f} ELSE fs
              /\ created' = IF keyed /\ r.wrote THEN created \cup {f} ELSE created
              /\ files_to_clean' = IF keyed /\ r.ret THEN Append(files_to_clean, f)
                                                     ELSE files_to_clean
              /\ StageStep("acquire", keyed /\ r.ret)
    /\ UNCHANGED <<pureVars, loopVars, queueVars, job_data, processed, cleaned, jobState,
                   cleanupCount, submitted, encoderTimedOut, stopVars>>

\* Lines 360-362.
Probe ==
    /\ pc = "probe"
    /\ \E o \in ProbeOutcomes :
          StageStep("probe", "media_type" \in job_data.fields
                             /\ AllDims(get_media_dimensions(o)))
    /\ UNCHANGED <<pureVars, loopVars, queueVars, job_data, files_to_clean, fs, processed, cleaned,
                   jobState, cleanupCount, created, submitted, encoderTimedOut, stopVars>>

\* Lines 364-365.
RenderCaption ==
    /\ pc = "caption"
    /\ \E o \in CaptionOutcomes :
          LET r == create_caption_image(o)
              f == File("caption", job_data.id)
              keyed == "caption_text" \in job_data.fields
          IN  /\ fs' = IF keyed /\ r.wrote THEN fs \cup {f} ELSE fs
              /\ created' = IF keyed /\ r.wrote THEN created \cup {f} ELSE created
              /\ files_to_clean' = IF keyed /\ r.ret THEN Append(files_to_clean, f)
                                                     ELSE files_to_clean
              /\ StageStep("caption", keyed /\ r.ret)
    /\ UNCHANGED <<pureVars, loopVars, queueVars, job_data, processed, cleaned, jobState,
                   cleanupCount, submitted, encoderTimedOut, stopVars>>

\* Lines 368-440: build the command (job_data['apply_fade'] is read at line
\* 391, before the encoder starts), run the encoder, record the output.
Compose ==
    /\ pc = "compose"
    /\ \E o \in EncoderOutcomes :
          LET r == run_encoder(o)
              f == File("output", job_data.id)
              keyed == "apply_fade" \in job_data.fields
          IN  /\ fs' = IF keyed /\ r.wrote THEN fs \cup {f} ELSE fs
              /\ created' = IF keyed /\ r.wrote THEN created \cup {f} ELSE created
              /\ encoderTimedOut' = (keyed /\ r.timed_out)
              /\ files_to_clean' = IF keyed /\ r.ok THEN Append(files_to_clean, f)
                                                    ELSE files_to_clean
              /\ StageStep("compose", keyed /\ r.ok)
    /\ UNCHANGED <<pureVars, loopVars, queueVars, job_data, processed, cleaned, jobState,
                   cleanupCount, submitted, stopVars>>

\* Lines 443-445.
ExtractFrame ==
    /\ pc = "frame"
    /\ \E o \in FrameOutcomes :
          LET r == extract_frame_from_video(o)
              f == File("frame", job_data.id)
          IN  /\ fs' = IF r.wrote THEN fs \cup {f} ELSE fs
              /\ created' = IF r.wrote THEN created \cup {f} ELSE created
              /\ files_to_clean' = IF r.ret THEN Append(files_to_clean, f)
                                            ELSE files_to_clean
              /\ StageStep("frame", r.ret)
    /\ UNCHANGED <<pureVars, loopVars, queueVars, job_data, processed, cleaned, jobState,
                   cleanupCount, submitted, encoderTimedOut, stopVars>>

\* Line 446.
Submit ==
    /\ pc = "submit"
    /\ submitted' = Append(submitted, job_data.id)
    /\ \E o \in SubmitOutcomes : StageStep("submit", o # "os_error")
    /\ UNCHANGED <<pureVars, loopVars, queueVars, job_data, files_to_clean, fs, processed, cleaned,
                   jobState, cleanupCount, created, encoderTimedOut, stopVars>>

\* Lines 452-454, and the return to the caller.
Finally ==
    /\ pc = "finally"
    /\ fs' = cleanup_files(files_to_clean, fs)
    /\ cleanupCount' = cleanupCount + 1
    /\ cleaned' = Append(cleaned, job_data.id)
    /\ jobState' = "returned"
    /\ pc' = AfterJobPc
    /\ UNCHANGED <<pureVars, loopVars, queueVars, job_data, files_to_clean, processed, stagesRun,
                   failedAt, created, submitted, encoderTimedOut, stopVars>>

\* ------------------------------------------------ stop_railway_deployment
\* Lines 85-87: both credentials must be set (non-empty).
HasCredentials(e) == e.api_token # "" /\ e.service_id # ""

\* Lines 96-109: the deployment-id query, sent with the bearer token.
get_id_query(e) ==
    [kind |-> "query", token |-> e.api_token, service |-> e.service_id, id |-> 0,
     outcome |-> ""]

\* Lines 126-133: the stop mutation for the fetched deployment id.
stop_mutation(e, id) ==
    [kind |-> "deploymentStop", token |-> e.api_token, service |-> "", id |-> id,
     outcome |-> ""]

\* What the function got back for a request (recorded after the request):
\* the outcome and, for a query that succeeded, the deployment id.
Reply(o, id) == [kind |-> "reply", token |-> "", service |-> "", id |-> id, outcome |-> o]

Reported(id) == Reply("ok", id)

DeployIds == 1..MaxDeployId

\* Lines 111-123: outcomes of the deployment-id query.
\*   "ok"            the reply holds the id of the latest deployment;
\*   "request_error" connection error, timeout, error status (RequestException);
\*   "no_data_key"   the reply is {"errors": [...]} without "data" (KeyError);
\*   "no_edges"      the service has no deployment: edges is [] (IndexError);
\*   "data_null"     the reply is {"data": null, "errors": [...]} or has
\*                   "service": null: subscripting None raises TypeError.
QueryOutcomes == {"ok", "request_error", "no_data_key", "no_edges", "data_null"}

QueryCaught_All(o) == o # "ok"

\* Line 119: except (RequestException, KeyError, IndexError).
QueryCaught(o) == o \in {"request_error", "no_data_key", "no_edges"}

AfterQueryPc_NoReturn(o) == IF QueryCaught_All(o) \/ o = "ok" THEN "stop_mutation" ELSE "stop_raised"

\* Lines 115-123: with the id the function goes on to the mutation; a caught
\* failure returns (line 123); any other exception leaves the function.
AfterQueryPc(o) ==
    IF o = "ok" THEN "stop_mutation"
    ELSE IF QueryCaught(o) THEN AfterStopPc
    ELSE "stop_raised"

\* Lines 81-123: the call, the credentials check and the deployment-id query.
StopQuery ==
    /\ pc = "shutdown"
    /\ stopCalls' = stopCalls + 1
    /\ IF ~HasCredentials(env)
       THEN /\ pc' = AfterStopPc
            /\ UNCHANGED <<railway, deployment_id>>
       ELSE \E o \in QueryOutcomes :
               IF o = "ok"
               THEN /\ railway' = railway \o <<get_id_query(env), Reported(latest)>>
                    /\ deployment_id' = latest
                    /\ pc' = AfterQueryPc(o)
               ELSE /\ railway' = railway \o <<get_id_query(env), Reply(o, 0)>>
                    /\ deployment_id' = deployment_id
                    /\ pc' = AfterQueryPc(o)
    /\ UNCHANGED <<pureVars, loopVars, queueVars, jobVars, latest, env>>

\* Lines 135-143: outcomes of the stop mutation; RequestException is logged.
MutationOutcomes == {"ok", "request_error"}

\* Lines 126-143: the stop mutation and the return.
StopMutation ==
    /\ pc = "stop_mutation"
    /\ \E o \in MutationOutcomes :
          railway' = railway \o <<stop_mutation(env, deployment_id), Reply(o, 0)>>
    /\ pc' = AfterStopPc
    /\ UNCHANGED <<pureVars, loopVars, queueVars, jobVars, stopCalls, latest, env, deployment_id>>

Next ==
    \/ Enqueue
    \/ WaitPoll
    \/ Sleep
    \/ WaitTimeout
    \/ AfterWait
    \/ DrainPoll
    \/ JobEntry
    \/ Acquire
    \/ Probe
    \/ RenderCaption
    \/ Compose
    \/ ExtractFrame
    \/ Submit
    \/ Finally
    \/ StopQuery
    \/ StopMutation

Spec == Init /\ [][Next]_vars

\* ---------------------------------------------------------------- claims
\* The payload is the JSON text of a descriptor the loop takes for a job.
IsJob(p) == p.text = "json" /\ Truthy(p.desc)

IsPrefix(s, t) == Len(s) <= Len(t) /\ \A i \in DOMAIN s : s[i] = t[i]

\* The positions of the thread at or after the call of line 501.
ShutdownReached == {"stop_mutation", "stop_raised", "exited"}

\* C1: when process_video_job has returned, every file the call created on
\* disk (partly written ones included) is in files_to_clean, the cleanup set
\* has as many entries as files were created, and none of the files exists.
C1_CreatedFilesAreCleaned ==
    jobState = "returned" =>
        /\ created \subseteq Range(files_to_clean)
        /\ Cardinality(Range(files_to_clean)) = Cardinality(created)
        /\ created \cap fs = {}

\* C2: when the encoder run of a job hit its timeout and the job has
\* finished, the job failed at the compose stage, its result was not
\* submitted, and no file of the job exists.
C2_EncoderTimeoutLeavesNoFile ==
    (jobState = "returned" /\ encoderTimedOut) =>
        /\ failedAt = "compose"
        /\ job_data.id \notin Range(submitted)
        /\ \A f \in fs : f.id # job_data.id

\* C3: no popped job descriptor makes process_video_job raise into the
\* worker loop: the thread never ends by an uncaught exception.
C3_NoJobTerminatesLoop == pc # "crashed"

\* C4: stop_railway_deployment has been called exactly once as soon as the
\* shutdown phase has been entered and never before, and once it has been
\* called no poll is made and no job is processed.
C4_StopInvokedExactlyOnce ==
    /\ [](stopCalls = IF pc \in ShutdownReached THEN 1 ELSE 0)
    /\ [][stopCalls >= 1 => (polls' = polls /\ processed' = processed)]_vars

C4_Witness ==
    /\ pc = "exited"
    /\ stopCalls = 1
    /\ Len(cleaned) = 2
    /\ Len(submitted) = 1

\* C5: the polling loop never gives up (shutdown without a first job) while
\* the queue holds a job that was pushed before the idle timeout elapsed.
\* Stated for the runs of the claim in which every poll was answered.
C5_EarlyJobNeverLeftBehind ==
    (pc = "shutdown" /\ ~Truthy(first_job) /\ ~pollFailed) =>
        \A i \in DOMAIN queue : ~(IsJob(queue[i]) /\ queue[i].early)

\* C6: when the shutdown phase is entered after a drain, the queue holds no
\* job that was in the queue while Draining polled.
C6_DrainLeavesNoJob ==
    (pc = "shutdown" /\ Truthy(first_job)) =>
        \A i \in DOMAIN queue : ~(IsJob(queue[i]) /\ queue[i].inDrain)

\* C7: inside the try block the stages run at most once each and in program
\* order, the stage that failed is the last one entered, and cleanup_files
\* has run exactly once when the call has returned and not before.
C7_FailureGoesStraightToCleanup ==
    /\ IsPrefix(stagesRun, StageOrder)
    /\ failedAt # "none" =>
          /\ stagesRun # <<>>
          /\ stagesRun[Len(stagesRun)] = failedAt
          /\ pc \notin Range(StageOrder)
    /\ jobState = "running" => cleanupCount = 0
    /\ jobState = "returned" => cleanupCount = 1

C7_Witness ==
    /\ jobState = "returned"
    /\ failedAt = "frame"
    /\ cleanupCount = 1

\* C8: when the polling loop ended without a job, the whole idle window has
\* elapsed, polls were made, process_video_job was never called, and after
\* the shutdown phase stop_railway_deployment has been called exactly once.
C8_IdleTimeoutProcessesNothing ==
    (pc \in {"shutdown"} \cup ShutdownReached /\ ~Truthy(first_job)) =>
        /\ now - start_time >= timeout_seconds
        /\ polls >= 1
        /\ processed = <<>>
        /\ pc = "exited" => stopCalls = 1

C8_Witness ==
    /\ pc = "exited"
    /\ ~Truthy(first_job)
    /\ jobsReturned = <<>>
    /\ stopCalls = 1

\* C9: when the run has ended and exactly one poll returned a job A, the
\* poll after it returned no job, process_video_job was called with A once
\* and with nothing else, at least two polls were made, and
\* stop_railway_deployment was called once.
C9_OneJobThenEmpty ==
    (pc = "exited" /\ Len(jobsReturned) = 1) =>
        /\ processed = jobsReturned
        /\ cleaned = jobsReturned
        /\ ~Truthy(lastPoll)
        /\ polls >= 2
        /\ stopCalls = 1

C9_Witness ==
    /\ pc = "exited"
    /\ Len(jobsReturned) = 1
    /\ processed = jobsReturned
    /\ polls = 2

\* C10: a poll starts only when every job handed to process_video_job so
\* far has been through its cleanup: no call is between acquire and cleanup.
C10_NoPollDuringJob ==
    [][polls' # polls => (jobState # "running" /\ cleaned = processed)]_vars

C10_Witness ==
    /\ Len(jobsReturned) = 2
    /\ Len(cleaned) = 1
    /\ jobState = "running"

NoDuplicates(s) == \A i, j \in DOMAIN s : i # j => s[i] # s[j]

\* C11: submit_result_to_worker is called at most once per popped job and
\* only for jobs handed to process_video_job, never for a job whose finally
\* block has already run, and the queue grows only when the producer pushes.
C11_AtMostOnceDelivery ==
    /\ [](NoDuplicates(submitted) /\ Range(submitted) \subseteq Range(processed))
    /\ [][/\ submitted' # submitted => job_data.id \notin Range(cleaned)
          /\ Len(queue') > Len(queue) => pushed' = pushed + 1]_vars

C11_Witness ==
    /\ pc = "exited"
    /\ failedAt = "submit"
    /\ submitted = <<job_data.id>>
    /\ Len(processed) = 1

\* ------------------------------------------- the encoder command (368-432)
\* Python int() of a quotient n / 2: truncation toward zero.
IntHalf(n) == IF n >= 0 THEN n \div 2 ELSE -((-n) \div 2)

\* Lines 370-371: int(media_h * (COMP_WIDTH / media_w)), for positive sizes.
\* On the sizes of this model the float product has the integer part of the
\* exact quotient.
scaled_media_h(media_w, media_h) == (media_h * COMP_WIDTH) \div media_w

media_y_pos_Floor(h) == ((COMP_HEIGHT - h) + 2 * MEDIA_Y_OFFSET) \div 2

\* Line 372: int((COMP_HEIGHT / 2 - scaled_media_h / 2) + MEDIA_Y_OFFSET).
media_y_pos(h) == IntHalf((COMP_HEIGHT - h) + 2 * MEDIA_Y_OFFSET)

\* One filter of the graph: its input labels, its output label, the fade
\* duration of a fading black layer, the vertical position of an overlay.
Scale(a, out) == [f |-> "scale", a |-> a, b |-> "", d |-> 0, y |-> 0, out |-> out]
Overlay(a, b, y, out) == [f |-> "overlay", a |-> a, b |-> b, d |-> 0, y |-> y, out |-> out]
BlackFadeOut(d, out) == [f |-> "fade", a |-> "", b |-> "", d |-> d, y |-> 0, out |-> out]
ASetPts(a, out) == [f |-> "asetpts", a |-> a, b |-> "", d |-> 0, y |-> 0, out |-> out]

filter_parts_FadeUnderCaption(apply_fade, y) ==
    LET base == << Scale("1:v", "scaled_media"),
                   Overlay("0:v", "scaled_media", y, "base_scene") >>
    IN  IF apply_fade
        THEN base \o
             << BlackFadeOut(MEDIA_FADE_DURATION, "media_fade_layer"),
                Overlay("base_scene", "media_fade_layer", 0, "scene_after_media_fade"),
                BlackFadeOut(CAPTION_FADE_DURATION, "caption_fade_layer"),
                Overlay("scene_after_media_fade", "caption_fade_layer", 0, "scene_with_text"),
                Overlay("scene_with_text", "2:v", 0, "final_v") >>
        ELSE base \o << Overlay("base_scene", "2:v", 0, "final_v") >>

\* Lines 382-414: filter_parts, with current_scene_label followed through.
filter_parts(apply_fade, y) ==
    LET base == << Scale("1:v", "scaled_media"),
                   Overlay("0:v", "scaled_media", y, "base_scene") >>
    IN  IF apply_fade
        THEN base \o
             << BlackFadeOut(MEDIA_FADE_DURATION, "media_fade_layer"),
                Overlay("base_scene", "media_fade_layer", 0, "scene_after_media_fade"),
                Overlay("scene_after_media_fade", "2:v", 0, "scene_with_text"),
                BlackFadeOut(CAPTION_FADE_DURATION, "caption_fade_layer"),
                Overlay("scene_with_text", "caption_fade_layer", 0, "final_v") >>
        ELSE base \o << Overlay("base_scene", "2:v", 0, "final_v") >>

\* Lines 418-422: the audio of a video is carried through its own filter.
filter_complex(parts, media_type) ==
    IF media_type = "video" THEN Append(parts, ASetPts("1:a", "final_a")) ELSE parts

\* Lines 419-422.
map_args(media_type) ==
    IF media_type = "video" THEN <<"final_v", "final_a">> ELSE <<"final_v">>

\* Lines 368-432: the command, from the job's flags and the probed size.
BuildEncoderCommand(in) ==
    LET h == scaled_media_h(in.media_w, in.media_h)
        y == media_y_pos(h)
    IN  [set |-> TRUE,
         scaled_media_h |-> h,
         media_y_pos |-> y,
         filter_complex |-> filter_complex(filter_parts(in.apply_fade, y), in.media_type),
         map_args |-> map_args(in.media_type)]

ComposeInputs ==
    [set : {TRUE}, apply_fade : BOOLEAN, media_type : {"image", "video"},
     media_w : 1..MaxMediaW, media_h : 1..MaxMediaH]

\* The command construction on its own: any flags, any positive size.
InitCompose ==
    /\ pc = "build_command"
    /\ WorkerStart
    /\ env = ProgramEnv
    /\ latest = 1
    /\ compose_in \in ComposeInputs
    /\ command = Unset
    /\ text = <<>>
    /\ final_lines = <<>>

BuildCommand ==
    /\ pc = "build_command"
    /\ command' = BuildEncoderCommand(compose_in)
    /\ pc' = "command_built"
    /\ UNCHANGED <<loopVars, queueVars, jobVars, stopVars, compose_in, text, final_lines>>

NextCompose == BuildCommand

SpecCompose == InitCompose /\ [][NextCompose]_vars

\* ---- reading the filter graph
\* The layers the encoder's inputs stand for: 0 the background canvas, 1 the
\* media, 2 the caption raster (line 374 and line 377).
Layer(kind, d) == [kind |-> kind, d |-> d]

InputLayer(label) ==
    IF label = "0:v" THEN Layer("background", 0)
    ELSE IF label = "1:v" THEN Layer("media", 0)
    ELSE Layer("caption", 0)

IsInput(label) == label \in {"0:v", "1:v", "2:v"}

Producer(parts, label) == parts[CHOOSE i \in DOMAIN parts : parts[i].out = label]

\* The layers a label is composed of, bottom first: overlay puts its second
\* input on top of its first.
RECURSIVE LayerStack(_, _)
LayerStack(parts, label) ==
    IF IsInput(label) THEN <<InputLayer(label)>>
    ELSE LET p == Producer(parts, label)
         IN  IF p.f = "overlay" THEN LayerStack(parts, p.a) \o LayerStack(parts, p.b)
             ELSE IF p.f = "fade" THEN <<Layer("fade", p.d)>>
             ELSE LayerStack(parts, p.a)

\* The mapped output labels that carry video.
VideoMaps(cmd) ==
    { l \in Range(cmd.map_args) : Producer(cmd.filter_complex, l).f # "asetpts" }

\* The output label of the last overlay of the graph.
LastComposite(parts) ==
    LET idx == { i \in DOMAIN parts : parts[i].f = "overlay" }
    IN  parts[CHOOSE i \in idx : \A j \in idx : j <= i].out

\* Opacity (0..255) at second t of a black layer fading out over d seconds
\* from second 0: opaque at the start, transparent from second d on.
FadeAlpha(t, d) == IF t >= d THEN 0 ELSE ((d - t) * 255) \div d

\* Layer i of the stack has no fading layer of non-zero opacity above it.
Unmasked(stack, i, t) ==
    \A j \in DOMAIN stack :
        (j > i /\ stack[j].kind = "fade") => FadeAlpha(t, stack[j].d) = 0

IndexOf(stack, kind) == CHOOSE i \in DOMAIN stack : stack[i].kind = kind

\* C12: with apply_fade the scene starts behind a fully opaque black layer,
\* the media is un-masked at second MEDIA_FADE_DURATION, when the caption is
\* still masked, and the caption is un-masked at second CAPTION_FADE_DURATION.
C12_MediaUnmaskedBeforeCaption ==
    (command.set /\ compose_in.apply_fade) =>
        LET stack == LayerStack(command.filter_complex, "final_v")
            top == stack[Len(stack)]
            media == IndexOf(stack, "media")
            caption == IndexOf(stack, "caption")
        IN  /\ top.kind = "fade" /\ FadeAlpha(0, top.d) = 255
            /\ Unmasked(stack, media, MEDIA_FADE_DURATION)
            /\ ~Unmasked(stack, caption, MEDIA_FADE_DURATION)
            /\ Unmasked(stack, caption, CAPTION_FADE_DURATION)

\* C13: the video output is the last composite and nothing else, and its
\* layers are, bottom first: background, media, black fading out over the
\* media fade duration, caption, black fading out over the caption fade
\* duration with apply_fade; background, media, caption without.
C13_LayerOrder ==
    command.set =>
        /\ VideoMaps(command) = {LastComposite(command.filter_complex)}
        /\ LayerStack(command.filter_complex, LastComposite(command.filter_complex)) =
              IF compose_in.apply_fade
              THEN << Layer("background", 0), Layer("media", 0),
                      Layer("fade", MEDIA_FADE_DURATION), Layer("caption", 0),
                      Layer("fade", CAPTION_FADE_DURATION) >>
              ELSE << Layer("background", 0), Layer("media", 0), Layer("caption", 0) >>

C13_Witness ==
    /\ command.set
    /\ compose_in.apply_fade
    /\ compose_in.media_type = "video"
    /\ Len(command.filter_complex) = 8

\* C15 as claimed: the position is exactly COMP_HEIGHT/2 - scaled_media_h/2
\* + MEDIA_Y_OFFSET (written without the halves).
C15_ExactCentre ==
    command.set =>
        2 * command.media_y_pos =
            (COMP_HEIGHT - command.scaled_media_h) + 2 * MEDIA_Y_OFFSET

\* C15 as amended: the position is that value truncated toward zero to a
\* whole pixel: exact for an even scaled height, half a pixel nearer to zero
\* for an odd one.
C15_CentreTruncated ==
    command.set =>
        LET n == (COMP_HEIGHT - command.scaled_media_h) + 2 * MEDIA_Y_OFFSET
            y == command.media_y_pos
        IN  /\ n % 2 = 0 => 2 * y = n
            /\ (n % 2 = 1 /\ n > 0) => 2 * y = n - 1
            /\ (n % 2 = 1 /\ n < 0) => 2 * y = n + 1

C15_Witness ==
    /\ command.set
    /\ command.scaled_media_h > COMP_HEIGHT
    /\ command.scaled_media_h % 2 = 1
    /\ command.media_y_pos < 0

\* --------------------------------------- wrapping the caption (259-264)
\* A caption text, as a sequence of tokens: a word (a run of characters that
\* are not whitespace, of the given length), a run of blanks, or a newline.
WordLens == {1, 29, 30, 61}
WsLens == {1, 31}

Tokens ==
    {[kind |-> "nl", len |-> 1]}
    \cup {[kind |-> "ws", len |-> n] : n \in WsLens}
    \cup {[kind |-> "word", len |-> n] : n \in WordLens}

\* A word is a whole run: no two words are adjacent.  (A hyphenated compound,
\* which TextWrapper._split cuts after its hyphens, is taken as one word.)
Texts ==
    { t \in UNION {[1..n -> Tokens] : n \in 0..MaxTokens} :
        \A i \in 1..(Len(t) - 1) : ~(t[i].kind = "word" /\ t[i + 1].kind = "word") }

\* A piece of text inside a line: len characters of token src of the text
\* (src is kept to follow the characters; blanks carry the first token's).
Piece(t, i) == [ws |-> t.kind = "ws", len |-> t.len, src |-> i]

RECURSIVE LineLen(_)
LineLen(pieces) ==
    IF pieces = <<>> THEN 0 ELSE Head(pieces).len + LineLen(Tail(pieces))

\* padded_text.split('\n'), CAPTION_TOP_PADDING_LINES being 0: the logical
\* lines, one more than there are newlines.
RECURSIVE split_nl(_, _, _)
split_nl(txt, i, cur) ==
    IF i > Len(txt) THEN <<cur>>
    ELSE IF txt[i].kind = "nl" THEN <<cur>> \o split_nl(txt, i + 1, <<>>)
    ELSE split_nl(txt, i + 1, Append(cur, Piece(txt[i], i)))

\* TextWrapper._split: the chunks of a line; adjacent blanks are one chunk.
RECURSIVE split_chunks(_)
split_chunks(line) ==
    IF Len(line) <= 1 THEN line
    ELSE IF line[1].ws /\ line[2].ws
         THEN split_chunks(<<[line[1] EXCEPT !.len = line[1].len + line[2].len]>>
                           \o Tail(Tail(line)))
         ELSE <<line[1]>> \o split_chunks(Tail(line))

\* The inner loop of TextWrapper._wrap_chunks: take chunks while they fit.
RECURSIVE Fill(_, _)
Fill(chunks, cur_line) ==
    IF chunks # <<>> /\ LineLen(cur_line) + Head(chunks).len <= wrap_width
    THEN Fill(Tail(chunks), Append(cur_line, Head(chunks)))
    ELSE [cur_line |-> cur_line, chunks |-> chunks]

handle_long_word_NoBreak(st) ==
    IF st.cur_line = <<>>
    THEN [cur_line |-> <<Head(st.chunks)>>, chunks |-> Tail(st.chunks)]
    ELSE st

\* TextWrapper._handle_long_word with break_long_words=True: the chunk's
\* first space_left characters go on the line, the rest stays a chunk.
handle_long_word(st) ==
    LET space_left == wrap_width - LineLen(st.cur_line)
        chunk == Head(st.chunks)
    IN  [cur_line |-> Append(st.cur_line, [chunk EXCEPT !.len = space_left]),
         chunks |-> <<[chunk EXCEPT !.len = chunk.len - space_left]>> \o Tail(st.chunks)]

\* drop_whitespace at the end of a line: a last piece that is blank or empty
\* is removed (one piece only).
DropTrailing(cur_line) ==
    IF cur_line # <<>> /\ (cur_line[Len(cur_line)].ws \/ cur_line[Len(cur_line)].len = 0)
    THEN SubSeq(cur_line, 1, Len(cur_line) - 1)
    ELSE cur_line

\* TextWrapper._wrap_chunks, lines being the lines made so far.
RECURSIVE wrap_chunks(_, _)
wrap_chunks(chunks, lines) ==
    IF chunks = <<>> THEN lines
    ELSE LET kept == IF Head(chunks).ws /\ lines # <<>> THEN Tail(chunks) ELSE chunks
             filled == Fill(kept, <<>>)
             st == IF filled.chunks # <<>> /\ Head(filled.chunks).len > wrap_width
                   THEN handle_long_word(filled)
                   ELSE filled
             cur_line == DropTrailing(st.cur_line)
         IN  wrap_chunks(st.chunks,
                         IF cur_line # <<>> THEN Append(lines, cur_line) ELSE lines)

\* textwrap.wrap(line, width=30, break_long_words=True).
wrap(line) == wrap_chunks(split_chunks(line), <<>>)

\* Line 263: the wrapped lines of every logical line, or [''] for a logical
\* line that wraps to nothing.  from is the logical line a line came from.
RECURSIVE WrapLines(_, _)
WrapLines(logical, k) ==
    IF k > Len(logical) THEN <<>>
    ELSE LET w == wrap(logical[k])
             out == IF w = <<>> THEN << <<>> >> ELSE w
         IN  [i \in 1..Len(out) |-> [from |-> k, pieces |-> out[i]]]
             \o WrapLines(logical, k + 1)

InitWrap ==
    /\ pc = "wrap_text"
    /\ WorkerStart
    /\ env = ProgramEnv
    /\ latest = 1
    /\ compose_in = Unset
    /\ command = Unset
    /\ text \in Texts
    /\ final_lines = <<>>

WrapCaption ==
    /\ pc = "wrap_text"
    /\ final_lines' = WrapLines(split_nl(text, 1, <<>>), 1)
    /\ pc' = "wrapped"
    /\ UNCHANGED <<loopVars, queueVars, jobVars, stopVars, compose_in, command, text>>

NextWrap == WrapCaption

SpecWrap == InitWrap /\ [][NextWrap]_vars

\* Characters of token t of the text found in a line.
RECURSIVE CharsOf(_, _)
CharsOf(pieces, t) ==
    IF pieces = <<>> THEN 0
    ELSE (IF Head(pieces).src = t /\ ~Head(pieces).ws THEN Head(pieces).len ELSE 0)
         + CharsOf(Tail(pieces), t)

RECURSIVE CharsKept(_, _)
CharsKept(lines, t) ==
    IF lines = <<>> THEN 0
    ELSE CharsOf(Head(lines).pieces, t) + CharsKept(Tail(lines), t)

LinesHolding(lines, t) == { i \in DOMAIN lines : CharsOf(lines[i].pieces, t) > 0 }

\* C16: every wrapped line has at most wrap_width characters; every word is
\* in the lines with all its characters, a word longer than wrap_width over
\* two lines or more; every logical line yields at least one line, and an
\* empty logical line exactly one, empty, line.
C16_WrappedLines ==
    pc = "wrapped" =>
        LET logical == split_nl(text, 1, <<>>)
        IN  /\ \A i \in DOMAIN final_lines : LineLen(final_lines[i].pieces) <= wrap_width
            /\ \A t \in DOMAIN text :
                  text[t].kind = "word" =>
                      /\ CharsKept(final_lines, t) = text[t].len
                      /\ text[t].len > wrap_width =>
                            Cardinality(LinesHolding(final_lines, t)) >= 2
            /\ \A k \in DOMAIN logical :
                  LET mine == { i \in DOMAIN final_lines : final_lines[i].from = k }
                  IN  /\ mine # {}
                      /\ logical[k] = <<>> =>
                            /\ Cardinality(mine) = 1
                            /\ \A i \in mine : final_lines[i].pieces = <<>>

C16_Witness ==
    /\ pc = "wrapped"
    /\ Len(text) = 3
    /\ text[1].kind = "word" /\ text[1].len = 61
    /\ text[2].kind = "nl" /\ text[3].kind = "nl"
    /\ Len(final_lines) = 5
    /\ LineLen(final_lines[1].pieces) = wrap_width
    /\ final_lines[4].pieces = <<>>

\* ----------------------------- one call of stop_railway_deployment (76-143)
\* The function on its own, in any environment: a variable that is not set
\* reads as "".
Envs == [api_token : {"", "t1", "t2", "t3"}, service_id : {"", "s1", "s2", "s3"}]

InitStop ==
    /\ pc = "shutdown"
    /\ WorkerStart
    /\ env \in Envs
    /\ latest \in DeployIds
    /\ PureIdle

NextStop ==
    \/ StopQuery
    \/ StopMutation

SpecStop == InitStop /\ [][NextStop]_vars

StopRequests == { i \in DOMAIN railway : railway[i].kind = "deploymentStop" }

QueryFailed == Len(railway) >= 2 /\ railway[2].outcome # "ok"

\* C14: stop_railway_deployment returns normally whatever its requests come
\* to, and after a deployment-id query that failed (request error, error
\* payload, no deployment) it has sent no stop mutation.
C14_StopNeverEscalates ==
    /\ pc # "stop_raised"
    /\ QueryFailed => (pc = AfterStopPc /\ StopRequests = {})

\* C19: the function sends at most one stop mutation, as its second request,
\* after a deployment-id query that was answered with an id, and the mutation
\* carries that id and the token; without token or service id it sends
\* nothing.
C19_StopRequestsOrdered ==
    /\ Cardinality(StopRequests) <= 1
    /\ \A i \in StopRequests :
          /\ i = 3
          /\ railway[1] = get_id_query(env)
          /\ railway[2].kind = "reply" /\ railway[2].outcome = "ok"
          /\ railway[i] = stop_mutation(env, railway[2].id)
    /\ ~HasCredentials(env) => railway = <<>>
    /\ Cardinality({ i \in DOMAIN railway : railway[i].kind = "query" }) <= 1

C19_Witness ==
    /\ pc = "exited"
    /\ Len(railway) = 4
    /\ latest = MaxDeployId
    /\ railway[2] = Reported(latest)
    /\ railway[3].id = latest
    /\ railway[4].outcome = "request_error"

\* C17: when submit_result_to_worker is called, acquire, probe, caption
\* rendering, composing and frame extraction have run, in that order, and
\* none has failed; the job's cleanup has not run, and the encoded video and
\* the preview frame are on disk.
C17_SubmitAfterAllStages ==
    [][submitted' # submitted =>
          /\ stagesRun = <<"acquire", "probe", "caption", "compose", "frame">>
          /\ failedAt = "none"
          /\ jobState = "running"
          /\ cleanupCount = 0
          /\ job_data.id \notin Range(cleaned)
          /\ {File("output", job_data.id), File("frame", job_data.id)} \subseteq fs]_vars

C17_Witness ==
    /\ jobState = "returned"
    /\ submitted = <<job_data.id>>
    /\ failedAt = "none"
    /\ cleaned = <<job_data.id>>
    /\ File("output", job_data.id) \notin fs

\* C18: on the list as a poll finds it, a request that fails, or a popped
\* payload that is not JSON, makes fetch_job_from_redis return None; a poll
\* that returned None is followed by the sleep and the next test of the loop
\* in WaitingForFirstJob and by the shutdown phase in Draining, and hands no
\* job over; only jobs that a poll returned are processed, so a job such a
\* poll removed never is.
C18_FailedPollIsNoJob ==
    /\ [](Range(processed) \subseteq Range(jobsReturned))
    /\ [][/\ polls' # polls =>
                /\ \A net \in {"conn_error", "lost_reply"} :
                      fetch_job_from_redis(queue, net).job = None
                /\ (queue # <<>> /\ RPopResult(queue).text = "garbage") =>
                      fetch_job_from_redis(queue, "ok").job = None
          /\ (polls' # polls /\ lastPoll' = None) =>
                /\ pc' = IF pc = "wait" THEN "wait_sleep" ELSE "shutdown"
                /\ jobsReturned' = jobsReturned
                /\ first_job' = first_job
                /\ processed' = processed
          /\ (pc = "wait_sleep" /\ pc' # pc) => pc' = "wait"]_vars

C18_Witness ==
    /\ pc = "exited"
    /\ pollFailed
    /\ lastPoll = None
    /\ pushed = 2
    /\ queue = <<>>
    /\ Len(processed) = 1
    /\ jobsReturned = processed

\* ------------------------------------------------------------- termination
\* The steps of the worker: every one of them is a call that returns or a
\* statement of the script, so none stays enabled for ever without being
\* taken.  The producer's pushes are not steps of the worker.
WorkerNext ==
    \/ WaitPoll
    \/ Sleep
    \/ WaitTimeout
    \/ AfterWait
    \/ DrainPoll
    \/ JobEntry
    \/ Acquire
    \/ Probe
    \/ RenderCaption
    \/ Compose
    \/ ExtractFrame
    \/ Submit
    \/ Finally
    \/ StopQuery
    \/ StopMutation

FairSpec == Spec /\ WF_vars(WorkerNext)

\* C20: with every call returning and at most MaxJobs pushes, the worker
\* eventually enters the shutdown phase and calls stop_railway_deployment.
C20_EventuallyStops == <>(pc \in ShutdownReached /\ stopCalls = 1)

====
